---- MODULE Spec2Model ----
(***************************************************************************)
(* The remote command bridge of wxgui.py: a werkzeug server thread        *)
(* (FlaskThread) dispatches HTTP requests to the Flask view functions,    *)
(* which schedule callables on the wx event loop with wx.CallAfter and    *)
(* wait on the process-wide response_event / response_value pair of       *)
(* main_window.frame.                                                      *)
(*                                                                         *)
(* Threads: the wx main thread (MainLoop, runs the CallAfter queue one    *)
(* callable at a time) and the server thread (serve_forever).  Every      *)
(* handler is split at the points where the two threads can interleave.   *)
(***************************************************************************)
EXTENDS Integers, Sequences, FiniteSets

\* Number of HTTP requests the clients send in one behaviour.
MaxReq == 2

Reqs == 1..MaxReq

BoundedWaitEndpoints == {"init_cmd", "init_map", "init_layer", "init_scale", "gcmd"}
BodyEndpoints == {"init_map", "init_layer", "init_scale", "gcmd"}
Endpoints == BoundedWaitEndpoints \cup {"version", "dump", "quit"}

\* The frame method each view function hands to wx.CallAfter.
CallableOf(e) ==
    CASE e = "init_cmd"   -> "InitDisableCmd"
      [] e = "init_map"   -> "InitMapset"
      [] e = "init_layer" -> "DisplayLayer"
      [] e = "init_scale" -> "InitMapScale"
      [] e = "gcmd"       -> "GCommand"
      [] e = "quit"       -> "_quitGRASS"
      [] OTHER            -> "none"

CommandCallables ==
    {"InitDisableCmd", "InitMapset", "DisplayLayer", "InitMapScale", "GCommand"}

\* Values of the Result Cell (main_window.frame.response_value).  t is the
\* Python type: None before any completion, a bool for the init operations,
\* the (returncode, stdout, stderr) tuple for GCommand.
\* out is the captured standard output of the command (response_value[1]).
NoneValue == [t |-> "none", b |-> FALSE, rc |-> 0, out |-> ""]
BoolValue(b) == [t |-> "bool", b |-> b, rc |-> 0, out |-> ""]
TripleValue(rc, out) == [t |-> "triple", b |-> FALSE, rc |-> rc, out |-> out]

ReturnCodes == {0, 1}

\* Captured outputs: a JSON document, and the empty output of a command
\* that printed nothing.
JsonText == "{\"a\":1}"
Stdouts == {JsonText, ""}

\* What GCommand leaves behind: a command that succeeded and printed a JSON
\* document, or one that failed and printed nothing.
GCommandResults == {TripleValue(0, JsonText), TripleValue(1, "")}

\* The values of kwargs["format"] ("absent": kwargs has no such key).
Formats == {"absent", "json", "plain"}

\* The values a completed callable can write.
ResultsOf(fn) ==
    IF fn = "GCommand" THEN GCommandResults
    ELSE {BoolValue(b) : b \in BOOLEAN}

\* Python truthiness: `if response_value:`.  A 3-tuple is truthy.
Truthy(v) ==
    CASE v.t = "bool"   -> v.b
      [] v.t = "triple" -> TRUE
      [] OTHER          -> FALSE

\* Responses.  "OK"/"ERROR"/"1.0" are the literal bodies; the others name
\* the shape: AssertionError, an exception while reading the body, a
\* TypeError while subscripting the value, the gcmd dict, the dump dict,
\* and the None a view returns by falling off its end.
\* The "stdout" member of the gcmd dict: the captured string itself, or the
\* value json.loads built from it.
NoOut == [form |-> "none", text |-> ""]
RawText(s) == [form |-> "str", text |-> s]
Parsed(s) == [form |-> "parsed", text |-> s]

PlainResponse(k) == [kind |-> k, rc |-> 0, out |-> NoOut]
TimeoutResponse == PlainResponse("ERROR")
OkResponse == PlainResponse("OK")
VersionResponse == PlainResponse("1.0")
AssertResponse == PlainResponse("AssertionError")
BadRequestResponse == PlainResponse("BadRequest")
TypeErrorResponse == PlainResponse("TypeError")
JsonErrorResponse == PlainResponse("JSONDecodeError")
DumpResponse == PlainResponse("dump")
DumpErrorResponse == PlainResponse("DumpError")
NoResponse == PlainResponse("None")
Unanswered == PlainResponse("unanswered")
GcmdDict(rc, o) == [kind |-> "gcmd", rc |-> rc, out |-> o]

\* json.loads accepts the string.
ValidJson(s) == s = JsonText

\* `"format" in params["kwargs"] and params["kwargs"]["format"] == "json"`
WantsJson(f) == f = "json"

\* init_cmd/init_map/init_layer/init_scale after wait returned true:
\* `if response_value: return "OK"` else fall through to `return "ERROR"`.
InitResponse(v) == IF Truthy(v) THEN OkResponse ELSE TimeoutResponse

\* gcmd after wait returned true: print(response_value[2]), then the dict
\* of response_value[0] and response_value[1], the latter through
\* json.loads when the format is "json".  Subscripting a bool raises
\* TypeError, json.loads of a string that is no JSON raises JSONDecodeError.
GcmdResponse(v, f) ==
    IF v.t # "triple" THEN TypeErrorResponse
    ELSE IF WantsJson(f)
         THEN IF ValidJson(v.out) THEN GcmdDict(v.rc, Parsed(v.out))
              ELSE JsonErrorResponse
         ELSE GcmdDict(v.rc, RawText(v.out))

CompletedResponse(e, f, v) ==
    IF e = "gcmd" THEN GcmdResponse(v, f) ELSE InitResponse(v)

VARIABLES
    frame,            \* the module global: "None" or "GMFrame"
    response_event,   \* threading.Event flag
    response_value,   \* the Result Cell
    response_writer,  \* history: the request whose callable wrote the cell
    ui_queue,         \* wx.CallAfter queue: sequence of [fn, req]
    ui_cur,           \* the callable the main thread is running
    ui_phase,         \* "idle", "running", "written", "exited" (main loop
                      \* over), "dead" (interpreter gone)
    pc,               \* per request: position of its handler
    ep,               \* per request: endpoint
    body_ok,          \* per request: body present with the required fields
    fmt,              \* per request: kwargs["format"] of a /gcmd body
    waitres,          \* per request: what response_event.wait returned
    readval,          \* per request: value read from the Result Cell
    response,         \* per request: response
    hist              \* history of what each request and callable did

vars == <<frame, response_event, response_value, response_writer, ui_queue, ui_cur, ui_phase,
          pc, ep, body_ok, fmt, waitres, readval, response, hist>>

NoCall == [fn |-> "none", req |-> 0]
ShowMainGui == [fn |-> "show_main_gui", req |-> 0]

\* History record of one request.
\*   clears, scheds, waits, reads: how often the handler cleared the event,
\*     called wx.CallAfter, called wait, read the Result Cell
\*   steps:  handler steps taken
\*   clean:  no command callable was queued or running when the handler started
\*   ran:    how often the UI thread started this request's callable
\*   wrote:  the value this request's callable wrote ("none" before)
\*   sigd:   this request's callable set the event before the handler
\*           returned from wait
\*   early:  this request's callable set the event before the handler
\*           entered wait
\*   threw:  this request's callable raised
\*   readby: the request whose callable wrote the value the handler read
\*   frameNone: frame was None when the handler started
\*   guiread: the handler thread read GUI state itself
NoHist ==
    [clears |-> 0, scheds |-> 0, waits |-> 0, reads |-> 0, steps |-> 0,
     clean |-> FALSE, ran |-> 0, wrote |-> NoneValue, sigd |-> FALSE,
     early |-> FALSE,
     threw |-> FALSE, readby |-> 0, frameNone |-> FALSE, guiread |-> FALSE]

Init ==
    /\ frame = "None"
    /\ response_event = FALSE
    /\ response_value = NoneValue
    /\ response_writer = 0
    /\ ui_queue = <<ShowMainGui>>
    /\ ui_cur = NoCall
    /\ ui_phase = "idle"
    /\ pc = [r \in Reqs |-> "unsent"]
    /\ ep = [r \in Reqs |-> "version"]
    /\ body_ok = [r \in Reqs |-> TRUE]
    /\ fmt = [r \in Reqs |-> "absent"]
    /\ waitres = [r \in Reqs |-> FALSE]
    /\ readval = [r \in Reqs |-> NoneValue]
    /\ response = [r \in Reqs |-> Unanswered]
    /\ hist = [r \in Reqs |-> NoHist]

uiVars == <<ui_queue, ui_cur, ui_phase>>
cellVars == <<response_event, response_value, response_writer>>
reqVars == <<ep, body_ok, fmt>>
outVars == <<waitres, readval, response>>

HandlerPcs ==
    {"start", "clear", "sched", "wait", "blocked", "read", "dump", "dumping"}

\* The interpreter has not exited.  FlaskThread is a daemon thread
\* (daemon=True): when main() returns, the server thread and the view
\* function it is running end with the process.
ProcessAlive == ui_phase # "dead"

Note(r, f, v) == hist' = [hist EXCEPT ![r] = [@ EXCEPT ![f] = v, !.steps = @ + 1]]

(***************************************************************************)
(* Clients and the server thread                                           *)
(***************************************************************************)

\* A client sends request r.  Requests are numbered in the order they reach
\* the listening socket.
Send(r, e, ok, f) ==
    /\ ProcessAlive
    /\ pc[r] = "unsent"
    /\ \A q \in Reqs : q < r => pc[q] # "unsent"
    /\ ok \/ e \in BodyEndpoints
    /\ f = "absent" \/ (e = "gcmd" /\ ok)
    /\ fmt' = [fmt EXCEPT ![r] = f]
    /\ pc' = [pc EXCEPT ![r] = "queued"]
    /\ ep' = [ep EXCEPT ![r] = e]
    /\ body_ok' = [body_ok EXCEPT ![r] = ok]
    /\ UNCHANGED <<frame, cellVars, uiVars, outVars, hist>>

\* Variant: make_server(..., threaded=True), one thread per request.
ServerThreaded == FALSE

\* make_server("0.0.0.0", flask_port, flask): werkzeug's default is
\* threaded=False, processes=1, so serve_forever handles one request to its
\* end before it accepts the next one.
ServerBusy == \E q \in Reqs : pc[q] \in HandlerPcs

\* FlaskThread.run: serve_forever takes the oldest queued connection and
\* calls the view function of its route.
Accept(r) ==
    /\ ProcessAlive
    /\ pc[r] = "queued"
    /\ ~ServerBusy
    /\ \A q \in Reqs : q < r => pc[q] # "queued"
    /\ pc' = [pc EXCEPT ![r] = "start"]
    /\ UNCHANGED <<frame, cellVars, uiVars, reqVars, outVars, hist>>

(***************************************************************************)
(* View functions                                                          *)
(***************************************************************************)

Finish(r, resp) ==
    /\ pc' = [pc EXCEPT ![r] = "done"]
    /\ response' = [response EXCEPT ![r] = resp]

\* Variant: get_version guarded by the same assert as the other views.
GetVersion_Asserting(r) ==
    /\ ProcessAlive
    /\ pc[r] = "start"
    /\ ep[r] = "version"
    /\ Finish(r, IF frame # "None" THEN VersionResponse ELSE AssertResponse)
    /\ Note(r, "frameNone", frame = "None")
    /\ UNCHANGED <<frame, cellVars, uiVars, reqVars, waitres, readval>>

\* get_version: return "1.0"
GetVersion(r) ==
    /\ ProcessAlive
    /\ pc[r] = "start"
    /\ ep[r] = "version"
    /\ Finish(r, VersionResponse)
    /\ Note(r, "frameNone", frame = "None")
    /\ UNCHANGED <<frame, cellVars, uiVars, reqVars, waitres, readval>>

\* Variant: the assert is missing (or compiled away).
FrameReady_NoAssert == TRUE

\* `assert frame is not None`
FrameReady == frame # "None"

\* Variant: the bounded-wait views call wx.CallAfter first and clear the
\* event afterwards.
NextPc_SubmitFirst(e, p) ==
    CASE p = "start" -> (IF e = "dump" THEN "dump" ELSE "sched")
      [] p = "sched" -> (IF e = "quit" THEN "done" ELSE "clear")
      [] p = "clear" -> "wait"
      [] OTHER       -> "done"

\* Variant: quit waits for the event like the bounded-wait views.
NextPc_QuitWaits(e, p) ==
    CASE p = "start" -> (IF e \in BoundedWaitEndpoints THEN "clear"
                         ELSE IF e = "dump" THEN "dump" ELSE "sched")
      [] p = "clear" -> "sched"
      [] p = "sched" -> "wait"
      [] OTHER       -> "done"

\* The order of the statements of a view function: the position after
\* position p of the handler of endpoint e.
\*   bounded-wait views: assert; response_event.clear(); wx.CallAfter(...);
\*                       response_event.wait(...); read response_value
\*   status_dump:        assert; build the snapshot
\*   quit:               assert; wx.CallAfter(frame._quitGRASS)
NextPc(e, p) ==
    CASE p = "start" -> (IF e \in BoundedWaitEndpoints THEN "clear"
                         ELSE IF e = "dump" THEN "dump" ELSE "sched")
      [] p = "clear" -> "sched"
      [] p = "sched" -> (IF e = "quit" THEN "done" ELSE "wait")
      [] OTHER       -> "done"

\* No command callable is queued or running.
UIQuiet ==
    /\ \A i \in 1..Len(ui_queue) : ui_queue[i].fn \notin CommandCallables
    /\ ui_cur.fn \notin CommandCallables

\* First statement of every view function but get_version.
CheckFrame(r) ==
    /\ ProcessAlive
    /\ pc[r] = "start"
    /\ ep[r] # "version"
    /\ IF FrameReady
       THEN /\ pc' = [pc EXCEPT ![r] = NextPc(ep[r], "start")]
            /\ UNCHANGED response
       ELSE Finish(r, AssertResponse)
    /\ hist' = [hist EXCEPT ![r] = [@ EXCEPT !.frameNone = (frame = "None"),
                                              !.clean = UIQuiet, !.steps = @ + 1]]
    /\ UNCHANGED <<frame, cellVars, uiVars, reqVars, waitres, readval>>

\* response_event.clear()
Clear(r) ==
    /\ ProcessAlive
    /\ pc[r] = "clear"
    /\ response_event' = FALSE
    /\ pc' = [pc EXCEPT ![r] = NextPc(ep[r], "clear")]
    /\ hist' = [hist EXCEPT ![r] = [@ EXCEPT !.clears = @ + 1, !.steps = @ + 1]]
    /\ UNCHANGED <<frame, response_value, response_writer, uiVars, reqVars, outVars>>

\* Variant: missing fields are read with params.get(...) and passed on as None.
BodyAccepted_Lenient(r) == TRUE

\* request.get_json() and the params[...] subscripts are evaluated before
\* wx.CallAfter is entered; any of them raising ends the view function.
BodyAccepted(r) == ep[r] \notin BodyEndpoints \/ body_ok[r]

\* params = request.get_json(); wx.CallAfter(frame.<method>, ...)
Schedule(r) ==
    /\ ProcessAlive
    /\ pc[r] = "sched"
    /\ IF BodyAccepted(r)
       THEN /\ ui_queue' = Append(ui_queue, [fn |-> CallableOf(ep[r]), req |-> r])
            /\ pc' = [pc EXCEPT ![r] = NextPc(ep[r], "sched")]
            /\ response' = [response EXCEPT ![r] =
                              IF NextPc(ep[r], "sched") = "done" THEN NoResponse ELSE @]
            /\ hist' = [hist EXCEPT ![r] = [@ EXCEPT !.scheds = @ + 1, !.steps = @ + 1]]
       ELSE /\ Finish(r, BadRequestResponse)
            /\ hist' = [hist EXCEPT ![r] = [@ EXCEPT !.steps = @ + 1]]
            /\ UNCHANGED ui_queue
    /\ UNCHANGED <<frame, cellVars, ui_cur, ui_phase, reqVars, waitres, readval>>

\* The handler thread enters response_event.wait(timeout=FLASK_TIMEOUT).
\* Event.wait tests the flag first: when it is already set the call returns
\* True at once, otherwise the thread blocks on the event's condition.
EnterWait(r) ==
    /\ ProcessAlive
    /\ pc[r] = "wait"
    /\ IF response_event
       THEN /\ waitres' = [waitres EXCEPT ![r] = TRUE]
            /\ pc' = [pc EXCEPT ![r] = "read"]
       ELSE /\ pc' = [pc EXCEPT ![r] = "blocked"]
            /\ UNCHANGED waitres
    /\ hist' = [hist EXCEPT ![r] = [@ EXCEPT !.waits = @ + 1, !.steps = @ + 1]]
    /\ UNCHANGED <<frame, cellVars, uiVars, reqVars, readval, response>>

\* The blocked wait returns True: response_event.set() woke the thread.
WaitSignaled(r) ==
    /\ ProcessAlive
    /\ pc[r] = "blocked"
    /\ response_event
    /\ waitres' = [waitres EXCEPT ![r] = TRUE]
    /\ pc' = [pc EXCEPT ![r] = "read"]
    /\ hist' = [hist EXCEPT ![r] = [@ EXCEPT !.steps = @ + 1]]
    /\ UNCHANGED <<frame, cellVars, uiVars, reqVars, readval, response>>

\* Variant: response_value is read whatever wait returned.
ReadsCell_Always(w) == TRUE

\* whether the view function reads response_value for this wait result
ReadsCell(w) == w

\* wait is called with timeout=FLASK_TIMEOUT.
TimeoutGiven == TRUE

\* Variant: on timeout the view function schedules its callable once more
\* and waits again.
WaitTimeout_Retry(r) ==
    /\ ProcessAlive
    /\ pc[r] = "blocked"
    /\ TimeoutGiven
    /\ ~response_event
    /\ waitres' = [waitres EXCEPT ![r] = FALSE]
    /\ IF hist[r].scheds < 2
       THEN /\ ui_queue' = Append(ui_queue, [fn |-> CallableOf(ep[r]), req |-> r])
            /\ pc' = [pc EXCEPT ![r] = "wait"]
            /\ hist' = [hist EXCEPT ![r] = [@ EXCEPT !.scheds = @ + 1, !.steps = @ + 1]]
            /\ UNCHANGED response
       ELSE /\ Finish(r, TimeoutResponse)
            /\ hist' = [hist EXCEPT ![r] = [@ EXCEPT !.steps = @ + 1]]
            /\ UNCHANGED ui_queue
    /\ UNCHANGED <<frame, cellVars, ui_cur, ui_phase, reqVars, readval>>

\* The blocked wait returns False: FLASK_TIMEOUT seconds passed with the
\* flag clear; the view function falls through to `return "ERROR"`.
WaitTimeout(r) ==
    /\ ProcessAlive
    /\ pc[r] = "blocked"
    /\ TimeoutGiven
    /\ ~response_event
    /\ waitres' = [waitres EXCEPT ![r] = FALSE]
    /\ IF ReadsCell(FALSE)
       THEN /\ pc' = [pc EXCEPT ![r] = "read"]
            /\ UNCHANGED response
       ELSE Finish(r, TimeoutResponse)
    /\ hist' = [hist EXCEPT ![r] = [@ EXCEPT !.steps = @ + 1]]
    /\ UNCHANGED <<frame, cellVars, uiVars, reqVars, readval>>

\* `from main_window.frame import response_value` and the return statement.
ReadResult(r) ==
    /\ ProcessAlive
    /\ pc[r] = "read"
    /\ readval' = [readval EXCEPT ![r] = response_value]
    /\ Finish(r, CompletedResponse(ep[r], fmt[r], response_value))
    /\ hist' = [hist EXCEPT ![r] = [@ EXCEPT !.reads = @ + 1, !.steps = @ + 1,
                                              !.readby = response_writer]]
    /\ UNCHANGED <<frame, cellVars, uiVars, reqVars, waitres>>

\* status_dump starts to build the snapshot: the first of its reads of
\* frame's widgets, on the server thread.
StatusDumpBegin(r) ==
    /\ ProcessAlive
    /\ pc[r] = "dump"
    /\ pc' = [pc EXCEPT ![r] = "dumping"]
    /\ Note(r, "guiread", TRUE)
    /\ UNCHANGED <<frame, cellVars, uiVars, reqVars, outVars>>

\* status_dump finishes.  Its reads are not synchronised with the UI
\* thread, which may change the widgets between two of them: the view
\* returns the snapshot, or one of the reads raises (a KeyError for a
\* toolbar that is gone, say).
StatusDump(r, okay) ==
    /\ ProcessAlive
    /\ pc[r] = "dumping"
    /\ Finish(r, IF okay THEN DumpResponse ELSE DumpErrorResponse)
    /\ hist' = [hist EXCEPT ![r] = [@ EXCEPT !.steps = @ + 1]]
    /\ UNCHANGED <<frame, cellVars, uiVars, reqVars, waitres, readval>>

(***************************************************************************)
(* The wx main thread: app.MainLoop()                                      *)
(***************************************************************************)

\* The event loop takes the next CallAfter callable.
UIStart ==
    /\ ui_phase = "idle"
    /\ ui_queue # <<>>
    /\ ui_cur' = Head(ui_queue)
    /\ ui_queue' = Tail(ui_queue)
    /\ ui_phase' = "running"
    /\ hist' = [r \in Reqs |->
                  IF r = Head(ui_queue).req THEN [hist[r] EXCEPT !.ran = @ + 1]
                  ELSE hist[r]]
    /\ UNCHANGED <<frame, cellVars, pc, reqVars, outVars>>

\* show_main_gui up to the try statement: frame = GMFrame(...) succeeds and
\* the callable goes on, or it raises, frame stays None (the except branch
\* reports or re-raises; neither assigns frame) and the callable is over.
ShowMainGuiRun(okay) ==
    /\ ui_phase = "running"
    /\ ui_cur.fn = "show_main_gui"
    /\ frame = "None"
    /\ IF okay
       THEN /\ frame' = "GMFrame"
            /\ UNCHANGED <<ui_cur, ui_phase>>
       ELSE /\ ui_cur' = NoCall
            /\ ui_phase' = "idle"
            /\ UNCHANGED frame
    /\ UNCHANGED <<cellVars, ui_queue, pc, reqVars, outVars, hist>>

\* The else branch of show_main_gui: frame.Maximize(True), frame.Show(),
\* self.SetTopWindow(frame); the callable returns.
ShowMainGuiShown ==
    /\ ui_phase = "running"
    /\ ui_cur.fn = "show_main_gui"
    /\ frame # "None"
    /\ ui_cur' = NoCall
    /\ ui_phase' = "idle"
    /\ UNCHANGED <<frame, cellVars, ui_queue, pc, reqVars, outVars, hist>>

\* A frame method finishes its GUI action and stores the outcome in
\* response_value.
UIWrite(v) ==
    /\ ui_phase = "running"
    /\ ui_cur.fn \in CommandCallables
    /\ v \in ResultsOf(ui_cur.fn)
    /\ response_value' = v
    /\ response_writer' = ui_cur.req
    /\ ui_phase' = "written"
    /\ hist' = [hist EXCEPT ![ui_cur.req] = [@ EXCEPT !.wrote = v]]
    /\ UNCHANGED <<frame, response_event, ui_queue, ui_cur, pc, reqVars, outVars>>

\* The frame method calls response_event.set() and returns.
UISet ==
    /\ ui_phase = "written"
    /\ response_event' = TRUE
    /\ ui_cur' = NoCall
    /\ ui_phase' = "idle"
    /\ hist' = [hist EXCEPT ![ui_cur.req] =
                  [@ EXCEPT !.sigd = (pc[ui_cur.req] \in {"clear", "sched", "wait", "blocked"}),
                            !.early = (pc[ui_cur.req] \in {"clear", "sched", "wait"})]]
    /\ UNCHANGED <<frame, response_value, response_writer, ui_queue, pc, reqVars, outVars>>

\* whether an exception leaving a CallAfter callable is turned into a
\* negative result: wx.CallAfter is handed the bound frame method itself,
\* with no wrapper around it.
CaughtAtBoundary == FALSE

\* A frame method raises.  wx reports the exception and the event loop goes
\* on with the next event.
UIThrow ==
    /\ ui_phase = "running"
    /\ ui_cur.fn \in CommandCallables
    /\ IF CaughtAtBoundary
       THEN /\ response_value' = (IF ui_cur.fn = "GCommand" THEN TripleValue(1, "")
                                  ELSE BoolValue(FALSE))
            /\ response_writer' = ui_cur.req
            /\ response_event' = TRUE
       ELSE UNCHANGED cellVars
    /\ ui_cur' = NoCall
    /\ ui_phase' = "idle"
    /\ hist' = [hist EXCEPT ![ui_cur.req] = [@ EXCEPT !.threw = TRUE]]
    /\ UNCHANGED <<frame, ui_queue, pc, reqVars, outVars>>

\* frame._quitGRASS: the main loop ends; nothing queued after it runs.
UIQuit ==
    /\ ui_phase = "running"
    /\ ui_cur.fn = "_quitGRASS"
    /\ ui_cur' = NoCall
    /\ ui_phase' = "exited"
    /\ UNCHANGED <<frame, cellVars, ui_queue, pc, reqVars, outVars, hist>>

\* app.MainLoop() has returned: main() returns and sys.exit(main()) ends the
\* interpreter.  Nothing joins or shuts down the server thread, so a view
\* function still running is cut off where it is.
ProcessExit ==
    /\ ui_phase = "exited"
    /\ ui_phase' = "dead"
    /\ UNCHANGED <<frame, cellVars, ui_queue, ui_cur, pc, reqVars, outVars, hist>>

Next ==
    \/ \E r \in Reqs, e \in Endpoints, ok \in BOOLEAN, f \in Formats : Send(r, e, ok, f)
    \/ \E r \in Reqs : Accept(r)
    \/ \E r \in Reqs : GetVersion(r)
    \/ \E r \in Reqs : CheckFrame(r)
    \/ \E r \in Reqs : Clear(r)
    \/ \E r \in Reqs : Schedule(r)
    \/ \E r \in Reqs : EnterWait(r)
    \/ \E r \in Reqs : WaitSignaled(r)
    \/ \E r \in Reqs : WaitTimeout(r)
    \/ \E r \in Reqs : ReadResult(r)
    \/ \E r \in Reqs : StatusDumpBegin(r)
    \/ \E r \in Reqs, okay \in BOOLEAN : StatusDump(r, okay)
    \/ UIStart
    \/ \E okay \in BOOLEAN : ShowMainGuiRun(okay)
    \/ ShowMainGuiShown
    \/ \E v \in ResultsOf("GCommand") \cup ResultsOf("InitMapset") : UIWrite(v)
    \/ UISet
    \/ UIThrow
    \/ UIQuit
    \/ ProcessExit

Spec == Init /\ [][Next]_vars

\* While the process lives the server thread is scheduled: a handler about
\* to call wait calls it, a blocked wait returns when the flag is set or
\* the timeout has passed, and a handler that returned from wait finishes
\* its view function.  None of these steps is enabled once the process
\* has exited.
HandlerFairness ==
    \A r \in Reqs :
        /\ WF_vars(EnterWait(r))
        /\ WF_vars(WaitSignaled(r) \/ WaitTimeout(r))
        /\ WF_vars(ReadResult(r))

FairSpec == Spec /\ HandlerFairness

TypeOK ==
    /\ frame \in {"None", "GMFrame"}
    /\ response_event \in BOOLEAN
    /\ pc \in [Reqs -> {"unsent", "queued", "done"} \cup HandlerPcs]
    /\ waitres \in [Reqs -> BOOLEAN]
    /\ response_value.rc \in ReturnCodes
    /\ response_value.out \in Stdouts
    /\ fmt \in [Reqs -> Formats]
    /\ ep \in [Reqs -> Endpoints]
    /\ ui_phase \in {"idle", "running", "written", "exited", "dead"}

(***************************************************************************)
(* Properties                                                              *)
(***************************************************************************)

BoundedReq(r) == ep[r] \in BoundedWaitEndpoints /\ pc[r] # "unsent"

\* A handler that has cleared the event and has not returned from wait.
Armed(r) == BoundedReq(r) /\ pc[r] \in {"sched", "wait", "blocked"}

\* A handler about to call response_event.clear() or wx.CallAfter.
AboutToArmOrSubmit(r) == BoundedReq(r) /\ pc[r] \in {"clear", "sched"}

\* C1: at most one bounded-wait handler is inside arm -> submit -> wait, and
\* no second handler is about to clear the event or call wx.CallAfter while
\* another one is armed and has not returned from wait.
C1_OneInFlight ==
    /\ Cardinality({r \in Reqs : Armed(r)}) <= 1
    /\ \A r, q \in Reqs : r # q => ~(Armed(q) /\ AboutToArmOrSubmit(r))

\* C1 witness: a handler is waiting while a second bounded-wait request has
\* reached the server and is held back.
C1_Witness ==
    \E r, q \in Reqs :
        /\ Armed(q) /\ pc[q] = "blocked"
        /\ BoundedReq(r) /\ pc[r] = "queued"

\* C2: every request whose wait returned true builds its response from the
\* value written by the callable it scheduled itself.
C2_NoCrossDelivery ==
    \A r \in Reqs :
        (pc[r] = "done" /\ waitres[r] /\ hist[r].reads > 0) => hist[r].readby = r

\* C3: a request that started with no other command pending, and whose own
\* callable signaled value v before the handler returned from wait, gets
\* wait == true and reads exactly v.
C3_SignaledValueRead ==
    \A r \in Reqs :
        (BoundedReq(r) /\ hist[r].clean /\ hist[r].sigd) =>
            /\ pc[r] \in {"wait", "blocked", "read", "done"}
            /\ pc[r] \in {"wait", "blocked"} =>
                  (response_event /\ response_value = hist[r].wrote)
            /\ pc[r] = "read" => (waitres[r] /\ response_value = hist[r].wrote)
            /\ pc[r] = "done" =>
                  (waitres[r] /\ hist[r].reads = 1 /\ readval[r] = hist[r].wrote)

\* C3 witness: such a request has finished after reading a GCommand result
\* with a nonzero return code.
C3_Witness ==
    \E r \in Reqs :
        /\ pc[r] = "done" /\ ep[r] = "gcmd"
        /\ hist[r].clean /\ hist[r].sigd
        /\ readval[r] = TripleValue(1, "")

\* C4: on timeout a bounded-wait handler answers "ERROR" without reading
\* the Result Cell; the cell is read only after wait returned true.
C4_TimeoutNoRead ==
    \A r \in Reqs :
        /\ (BoundedReq(r) /\ pc[r] = "done" /\ hist[r].waits > 0 /\ ~waitres[r]) =>
              (response[r] = TimeoutResponse /\ hist[r].reads = 0)
        /\ (pc[r] = "read" \/ hist[r].reads > 0) => waitres[r]

\* C4 witness: a gcmd request timed out while its callable had already
\* written the cell.
C4_Witness ==
    \E r \in Reqs :
        /\ pc[r] = "done" /\ ep[r] = "gcmd"
        /\ hist[r].waits = 1 /\ ~waitres[r]
        /\ response_writer = r

\* C5: while frame is None every request but /version is answered with the
\* assertion error, having cleared nothing, scheduled nothing, waited for
\* nothing and read nothing of frame; an /init/map request handled after
\* frame is set, whose callable signals a truthy result in time, is
\* answered "OK".
C5_RejectedUntilFrame ==
    \A r \in Reqs :
        /\ (ep[r] # "version" /\ hist[r].frameNone) =>
              /\ pc[r] = "done"
              /\ response[r] = AssertResponse
              /\ hist[r].clears = 0 /\ hist[r].scheds = 0 /\ hist[r].waits = 0
              /\ hist[r].reads = 0 /\ ~hist[r].guiread
              /\ \A i \in 1..Len(ui_queue) : ui_queue[i].req # r
        /\ (ep[r] = "init_map" /\ pc[r] = "done" /\ hist[r].steps > 0
              /\ ~hist[r].frameNone /\ hist[r].sigd /\ Truthy(hist[r].wrote)) =>
              response[r] = OkResponse

\* C5 witness: the same /init/map request was rejected before the frame
\* existed and answered "OK" afterwards.
C5_Witness ==
    \E r, q \in Reqs :
        /\ ep[r] = "init_map" /\ body_ok[r] /\ hist[r].frameNone
        /\ response[r] = AssertResponse
        /\ ep[q] = "init_map" /\ body_ok[q] /\ response[q] = OkResponse

\* C6: /version answers "1.0" whatever the state of frame, in one step that
\* clears nothing, waits for nothing and schedules nothing.
C6_VersionAlways ==
    \A r \in Reqs :
        (ep[r] = "version" /\ pc[r] = "done") =>
            /\ response[r] = VersionResponse
            /\ hist[r].clears = 0 /\ hist[r].waits = 0 /\ hist[r].scheds = 0
            /\ hist[r].steps = 1

\* C6 witness: /version was answered while frame was None.
C6_Witness ==
    \E r \in Reqs :
        ep[r] = "version" /\ pc[r] = "done" /\ hist[r].frameNone

\* C7: a request without the body or a required field never has a callable
\* scheduled, and is answered with an error.
C7_MalformedNotScheduled ==
    \A r \in Reqs :
        (pc[r] # "unsent" /\ ~body_ok[r]) =>
            /\ hist[r].scheds = 0
            /\ \A i \in 1..Len(ui_queue) : ui_queue[i].req # r
            /\ ui_cur.req # r
            /\ pc[r] \notin {"wait", "blocked", "read"}
            /\ pc[r] = "done" => response[r] \in {BadRequestResponse, AssertResponse}

\* C7 witness: a malformed /gcmd request was rejected after the frame was set.
C7_Witness ==
    \E r \in Reqs :
        /\ ep[r] = "gcmd" /\ ~body_ok[r]
        /\ pc[r] = "done" /\ response[r] = BadRequestResponse

\* C8: the /quit handler never clears or waits on the event; once past the
\* assert it schedules _quitGRASS exactly once and returns, in at most two
\* steps of its own, each of them enabled whatever the UI thread is doing.
C8_QuitFireAndForget ==
    \A r \in Reqs :
        (ep[r] = "quit" /\ pc[r] # "unsent") =>
            /\ hist[r].clears = 0 /\ hist[r].waits = 0 /\ hist[r].reads = 0
            /\ hist[r].steps <= 2
            /\ pc[r] \in {"queued", "start", "sched", "done"}
            /\ (ProcessAlive /\ pc[r] = "start") => ENABLED CheckFrame(r)
            /\ (ProcessAlive /\ pc[r] = "sched") => ENABLED Schedule(r)
            /\ (pc[r] = "done" /\ ~hist[r].frameNone) => hist[r].scheds = 1

\* C8 witness: /quit returned while the UI thread was busy with the
\* callable of an earlier request that is no longer waited for, and before
\* _quitGRASS ran.
C8_Witness ==
    \E r \in Reqs :
        /\ ep[r] = "quit" /\ pc[r] = "done" /\ hist[r].scheds = 1
        /\ hist[r].ran = 0
        /\ ui_phase = "running" /\ ui_cur.fn \in CommandCallables

\* C9: when the callable of a waiting request has raised, the event is set
\* (a negative result was written and signaled), so the handler wakes up.
C9_ThrowIsSignaled ==
    \A r \in Reqs :
        (hist[r].threw /\ pc[r] \in {"wait", "blocked"}) =>
            /\ response_event
            /\ response_writer = r
            /\ ~Truthy(response_value) \/ response_value.rc # 0

\* The result of a completed command says that the command failed.
FailureValue(v) == (v.t = "bool" /\ ~v.b) \/ (v.t = "triple" /\ v.rc # 0)

\* C10: a bounded-wait request that read the failure result of its own
\* completed command answers with something other than the timeout response.
C10_FailureNotTimeout ==
    \A r \in Reqs :
        (BoundedReq(r) /\ pc[r] = "done" /\ waitres[r] /\ hist[r].reads > 0
            /\ hist[r].readby = r /\ FailureValue(readval[r])) =>
            response[r] # TimeoutResponse

\* The result a /gcmd handler read is the tuple its own GCommand wrote.
OwnGcmdResult(r) ==
    /\ ep[r] = "gcmd" /\ pc[r] = "done"
    /\ waitres[r] /\ hist[r].reads > 0
    /\ hist[r].readby = r /\ readval[r].t = "triple"

\* C11: a completed /gcmd request answers {returncode, stdout}, where stdout
\* is the parsed value exactly when kwargs has format == "json" and the
\* captured string otherwise.
C11_GcmdStdoutShape ==
    \A r \in Reqs :
        OwnGcmdResult(r) =>
            /\ response[r].kind = "gcmd"
            /\ response[r].rc = readval[r].rc
            /\ response[r].out = IF fmt[r] = "json" THEN Parsed(readval[r].out)
                                 ELSE RawText(readval[r].out)

\* C12: a request whose wait returned true never reads a value written by
\* the callable of a request that was handled before it.
C12_NoStaleResult ==
    \A r \in Reqs :
        (waitres[r] /\ hist[r].reads > 0) => hist[r].readby >= r

\* C13: when the request's callable set the event before the handler
\* entered wait, the handler never blocks and wait returns true.
C13_NoLostWakeup ==
    \A r \in Reqs :
        hist[r].early =>
            /\ pc[r] # "blocked"
            /\ pc[r] = "wait" => response_event
            /\ pc[r] \in {"read", "done"} => waitres[r]

\* C13 witness: a handler whose callable finished before it entered wait
\* has returned with its own value.
C13_Witness ==
    \E r \in Reqs :
        /\ hist[r].early /\ pc[r] = "done"
        /\ waitres[r] /\ hist[r].readby = r

\* C14: the event is cleared only by a request whose body was validated; a
\* request that fails validation never clears it.
C14_ValidatedBeforeArmed ==
    \A r \in Reqs : ~body_ok[r] => hist[r].clears = 0

\* C15: no handler thread reads the frame's GUI state itself.
C15_NoGuiAccessFromHandlers ==
    \A r \in Reqs : ~hist[r].guiread

\* Number of callables of request r in the CallAfter queue.
QueuedFor(r) == Cardinality({i \in 1..Len(ui_queue) : ui_queue[i].req = r})

\* C16: a request schedules its callable at most once, and exactly once
\* when it was accepted; the callable stays queued until the UI thread takes
\* it (a timeout does not remove it), and the UI thread runs it at most once.
C16_ExactlyOnce ==
    \A r \in Reqs :
        /\ hist[r].scheds <= 1
        /\ hist[r].ran <= 1
        /\ QueuedFor(r) + hist[r].ran = hist[r].scheds
        /\ (pc[r] = "done" /\ ep[r] \in BoundedWaitEndpoints \cup {"quit"}
              /\ ~hist[r].frameNone /\ body_ok[r]) => hist[r].scheds = 1

\* C16 witness: a request timed out with its callable still queued.
C16_Witness ==
    \E r \in Reqs :
        /\ pc[r] = "done" /\ hist[r].waits = 1 /\ ~waitres[r]
        /\ response[r] = TimeoutResponse
        /\ hist[r].scheds = 1 /\ hist[r].ran = 0 /\ QueuedFor(r) = 1

\* C17: every handler that reaches wait eventually returns a response.
C17_WaitReturns ==
    \A r \in Reqs : (pc[r] \in {"wait", "blocked"}) ~> (pc[r] = "done")

\* C18: the UI thread runs a command callable only once frame is assigned;
\* while frame is None (before show_main_gui ran, or for good when GMFrame
\* raised) no request has scheduled anything.
C18_NoCommandBeforeFrame ==
    /\ ui_cur.fn \in CommandCallables \cup {"_quitGRASS"} => frame # "None"
    /\ frame = "None" =>
          /\ \A i \in 1..Len(ui_queue) : ui_queue[i].fn = "show_main_gui"
          /\ \A r \in Reqs : hist[r].scheds = 0 /\ hist[r].ran = 0
    /\ frame # "None" =>
          \A i \in 1..Len(ui_queue) : ui_queue[i].fn # "show_main_gui"

\* C18 witness: GMFrame raised, and an /init/cmd request handled afterwards
\* was turned away.
C18_Witness ==
    /\ frame = "None" /\ ui_queue = <<>> /\ ui_cur = NoCall
    /\ \E r \in Reqs :
          ep[r] = "init_cmd" /\ pc[r] = "done" /\ response[r] = AssertResponse

====
